---------------------------- MODULE Spec2Model ----------------------------
(***************************************************************************)
(* A model of zenn_user_ranking.py: the user-ranking pipeline              *)
(*   ZennUserDiscovery.discover_users_from_popular_articles                *)
(*   ZennUserStatsCollector.collect_user_stats / collect_all_user_stats    *)
(*   RankingGenerator.generate_top_ranking / export_to_csv                 *)
(*   ZennRankingOrchestrator.execute_ranking_pipeline                      *)
(* The remote API is the environment: every response it can give is a      *)
(* nondeterministic input of the action that consumes it.                  *)
(***************************************************************************)
EXTENDS Integers, Sequences, FiniteSets

VARIABLES
    pc,               \* where execute_ranking_pipeline stands
    max_pages,        \* ZennUserDiscovery.max_pages
    top_ranking,      \* ZennRankingOrchestrator.top_ranking
    page,             \* discover_users_from_popular_articles: local page
    discovered_users, \* the set being discovered, then the orchestrator's local
    requests,         \* history: page requests issued so far (saturates at ReqCap)
    pages_users,      \* history: usernames on every page the server delivered
    clean_users,      \* history: usernames on the pages processed to their end
    partial_users,    \* history: usernames preceding the malformed article of the page that raised
    pending,          \* collect_all_user_stats: usernames the for loop has not reached
    user_stats,       \* collect_all_user_stats: user_stats, then the orchestrator's local
    failed,           \* history: usernames whose lookup failed (non-ok or exception)
    ranking,          \* generate_top_ranking's result
    csv               \* rows of the output file, NoFile before it is opened

vars == <<pc, max_pages, top_ranking, page, discovered_users, requests,
          pages_users, clean_users, partial_users, pending, user_stats,
          failed, ranking, csv>>

(***************************************************************************)
(* Bounds of the model.                                                    *)
(***************************************************************************)
MaxPagesBound == 2      \* max_pages ranges over 0..MaxPagesBound
MaxArticles == 3        \* articles on one page of the feed
MaxStats == 3           \* length of the list handed to generate_top_ranking

ReqCap == MaxPagesBound + 1   \* the request counter saturates here

(***************************************************************************)
(* Python values that reach the statistics: an int, or None (a JSON null). *)
(***************************************************************************)
\* (None carries a v only so that all values are records of one shape.)
PyInt(n) == [t |-> "int", v |-> n]
None == [t |-> "NoneType", v |-> 0]
IsInt(x) == x.t = "int"

Usernames == {"a", "b", "c"}

\* An article of the feed: its "user" is a dict whose username is a name, or is
\* empty or absent (""), or "user" is null (not a dict).
Articles == [user : {"dict"}, username : Usernames \cup {""}]
              \cup {[user |-> "null", username |-> ""]}

RECURSIVE SeqsUpTo(_, _)
SeqsUpTo(S, n) ==
    IF n = 0 THEN {<<>>}
    ELSE LET shorter == SeqsUpTo(S, n - 1)
         IN  shorter \cup {Append(s, x) : s \in {t \in shorter : Len(t) = n - 1}, x \in S}

\* The non-empty article lists a page can carry.
PageContents == SeqsUpTo(Articles, MaxArticles) \ {<<>>}

\* next_page of a response: None, or any page number, also one that is not
\* beyond the page just requested.
NextPageValues == {None} \cup {PyInt(n) : n \in 0 .. MaxPagesBound + 1}

\* The output file as the list of its rows; NoFile: it was never opened. The
\* header row stands for the five column titles the code writes.
NoFile == <<>>
Header == <<"rank", "username", "total_liked_count", "article_count", "user_page">>

Init ==
    /\ pc = "discover"
    /\ max_pages \in 0 .. MaxPagesBound
    /\ top_ranking \in {2, 100}
    /\ page = 1
    /\ discovered_users = {}
    /\ requests = 0
    /\ pages_users = {}
    /\ clean_users = {}
    /\ partial_users = {}
    /\ pending = {}
    /\ user_stats = <<>>
    /\ failed = {}
    /\ ranking = <<>>
    /\ csv = NoFile

(***************************************************************************)
(* discover_users_from_popular_articles                                    *)
(***************************************************************************)
\* Variant of ExtractUsers without the "if username:" test.
RECURSIVE ExtractUsersUnfiltered(_, _, _)
ExtractUsersUnfiltered(articles, i, users) ==
    IF i > Len(articles) THEN [users |-> users, raised |-> FALSE]
    ELSE IF articles[i].user # "dict" THEN [users |-> users, raised |-> TRUE]
    ELSE ExtractUsersUnfiltered(articles, i + 1,
                                users \cup {articles[i].username})

\* The for loop over a page's articles, from article i on: a username that is
\* truthy is added; article.get("user", {}).get("username") raises when "user"
\* is null, which leaves the loop with the users added so far.
RECURSIVE ExtractUsers(_, _, _)
ExtractUsers(articles, i, users) ==
    IF i > Len(articles) THEN [users |-> users, raised |-> FALSE]
    ELSE IF articles[i].user # "dict" THEN [users |-> users, raised |-> TRUE]
    ELSE ExtractUsers(articles, i + 1,
                      IF articles[i].username # ""
                      THEN users \cup {articles[i].username}
                      ELSE users)

\* What the server sent, read off the response alone.
PageUsernames(articles) ==
    {articles[i].username : i \in 1 .. Len(articles)} \ {""}
PrefixUsernames(articles) ==
    {articles[i].username :
        i \in {j \in 1 .. Len(articles) :
                 \A k \in 1 .. j : articles[k].user = "dict"}} \ {""}

CountRequest(n) == IF n < ReqCap THEN n + 1 ELSE n

\* while page <= self.max_pages: the condition is false, the function returns.
LoopExit ==
    /\ pc = "discover"
    /\ ~(page <= max_pages)
    /\ pc' = "discovered"
    /\ UNCHANGED <<max_pages, top_ranking, page, discovered_users, requests,
                   pages_users, clean_users, partial_users, pending,
                   user_stats, failed, ranking, csv>>

\* The request is answered with a non-ok status: break.
FetchNotOk ==
    /\ pc = "discover"
    /\ page <= max_pages
    /\ requests' = CountRequest(requests)
    /\ pc' = "discovered"
    /\ UNCHANGED <<max_pages, top_ranking, page, discovered_users,
                   pages_users, clean_users, partial_users, pending,
                   user_stats, failed, ranking, csv>>

\* requests.get or response.json() raises: except Exception, break.
FetchRaises ==
    /\ pc = "discover"
    /\ page <= max_pages
    /\ requests' = CountRequest(requests)
    /\ pc' = "discovered"
    /\ UNCHANGED <<max_pages, top_ranking, page, discovered_users,
                   pages_users, clean_users, partial_users, pending,
                   user_stats, failed, ranking, csv>>

\* An ok response whose "articles" is empty or absent: break.
FetchEmpty ==
    /\ pc = "discover"
    /\ page <= max_pages
    /\ requests' = CountRequest(requests)
    /\ pc' = "discovered"
    /\ UNCHANGED <<max_pages, top_ranking, page, discovered_users,
                   pages_users, clean_users, partial_users, pending,
                   user_stats, failed, ranking, csv>>

\* An ok response with articles, all well-formed: the users are extracted, then
\* next_page is followed, or the loop left when it is None.
FetchPage(articles, next_page) ==
    /\ pc = "discover"
    /\ page <= max_pages
    /\ ~ExtractUsers(articles, 1, discovered_users).raised
    /\ requests' = CountRequest(requests)
    /\ discovered_users' = ExtractUsers(articles, 1, discovered_users).users
    /\ IF ~IsInt(next_page)
       THEN pc' = "discovered" /\ page' = page
       ELSE pc' = "discover" /\ page' = next_page.v
    /\ pages_users' = pages_users \cup PageUsernames(articles)
    /\ clean_users' = clean_users \cup PageUsernames(articles)
    /\ UNCHANGED <<max_pages, top_ranking, partial_users, pending, user_stats,
                   failed, ranking, csv>>

\* An ok response with an article whose "user" is null: the extraction raises
\* at that article, except Exception, break; next_page is never read.
FetchMalformedPage(articles) ==
    /\ pc = "discover"
    /\ page <= max_pages
    /\ ExtractUsers(articles, 1, discovered_users).raised
    /\ requests' = CountRequest(requests)
    /\ discovered_users' = ExtractUsers(articles, 1, discovered_users).users
    /\ pc' = "discovered"
    /\ pages_users' = pages_users \cup PageUsernames(articles)
    /\ partial_users' = PrefixUsernames(articles)
    /\ UNCHANGED <<max_pages, top_ranking, page, clean_users, pending,
                   user_stats, failed, ranking, csv>>

Discover ==
    \/ LoopExit
    \/ FetchNotOk
    \/ FetchRaises
    \/ FetchEmpty
    \/ /\ pc = "discover"
       /\ \E articles \in PageContents, next_page \in NextPageValues :
             FetchPage(articles, next_page)
    \/ /\ pc = "discover"
       /\ \E articles \in PageContents : FetchMalformedPage(articles)

DiscoverySpec == Init /\ [][Discover]_vars /\ WF_vars(Discover)

(***************************************************************************)
(* ZennUserStatsCollector                                                  *)
(***************************************************************************)
\* A field of a JSON object: absent, null, or a number.
Missing == [t |-> "missing", v |-> 0]
JsonCounts == {Missing, None, PyInt(0), PyInt(50)}

\* dict.get(key, default): the default only when the key is absent.
Get(field, default) == IF field.t = "missing" THEN default ELSE field

\* The body of an ok response of the per-user endpoint: "user" is absent, null
\* or a dict with its two counts.
UserBodies ==
    [user : {"missing", "null"}, total_liked_count : {Missing},
     articles_count : {Missing}]
    \cup [user : {"dict"}, total_liked_count : JsonCounts,
          articles_count : JsonCounts]

\* What a lookup can meet: a non-ok status, an exception of requests.get or
\* response.json(), or an ok response with a body.
Responses ==
    [kind : {"not_ok", "raises"},
     body : {[user |-> "missing", total_liked_count |-> Missing,
              articles_count |-> Missing]}]
    \cup [kind : {"ok"}, body : UserBodies]

\* The lookups that end in "return username, 0, 0": the non-ok status and every
\* exception, that of user.get on a null "user" included.
LookupFails(response) ==
    response.kind # "ok" \/ response.body.user = "null"

\* Variant of collect_user_stats whose failure paths return no counts.
collect_user_stats_no_default(username, response) ==
    IF LookupFails(response) THEN <<username, None, None>>
    ELSE <<username, Get(response.body.total_liked_count, PyInt(0)),
           Get(response.body.articles_count, PyInt(0))>>

collect_user_stats(username, response) ==
    IF response.kind = "raises" THEN <<username, PyInt(0), PyInt(0)>>
    ELSE IF response.kind = "not_ok" THEN <<username, PyInt(0), PyInt(0)>>
    ELSE IF response.body.user = "null" THEN <<username, PyInt(0), PyInt(0)>>
    ELSE LET user == IF response.body.user = "missing"
                     THEN [total_liked_count |-> Missing, articles_count |-> Missing]
                     ELSE response.body
             total_likes == Get(user.total_liked_count, PyInt(0))
             article_count == Get(user.articles_count, PyInt(0))
         IN  <<username, total_likes, article_count>>

\* One iteration of the for loop of collect_all_user_stats; a set is iterated
\* in an order the program does not choose.
CollectNext(username, response) ==
    /\ pc = "collect"
    /\ username \in pending
    /\ user_stats' = Append(user_stats, collect_user_stats(username, response))
    /\ pending' = pending \ {username}
    /\ failed' = IF LookupFails(response) THEN failed \cup {username} ELSE failed
    /\ UNCHANGED <<pc, max_pages, top_ranking, page, discovered_users, requests,
                   pages_users, clean_users, partial_users, ranking, csv>>

(***************************************************************************)
(* RankingGenerator                                                        *)
(***************************************************************************)
\* key=lambda x: (x[1], x[2]); the model's tuples are 1-based.
Key(x) == <<x[2], x[3]>>

\* Variant of KeyLess that compares the total likes only.
KeyLessLikesOnly(k1, k2) == k1[1].v < k2[1].v

\* Python's < on two values: defined on two ints, a TypeError otherwise.
\* Tuples compare at their first differing component.
KeyLess(k1, k2) ==
    IF k1[1] # k2[1] THEN k1[1].v < k2[1].v
    ELSE IF k1[2] # k2[2] THEN k1[2].v < k2[2].v
    ELSE FALSE
Incomparable(k1, k2) ==
    IF k1[1] # k2[1] THEN ~(IsInt(k1[1]) /\ IsInt(k2[1]))
    ELSE IF k1[2] # k2[2] THEN ~(IsInt(k1[2]) /\ IsInt(k2[2]))
    ELSE FALSE

\* sorted raises TypeError when it compares two keys that Python cannot order.
SortRaises(xs) ==
    \E i, j \in 1 .. Len(xs) : Incomparable(Key(xs[i]), Key(xs[j]))

\* x put into a descending list behind every entry whose key is not less.
RECURSIVE InsertDesc(_, _)
InsertDesc(x, xs) ==
    IF xs = <<>> THEN <<x>>
    ELSE IF KeyLess(Key(xs[1]), Key(x)) THEN <<x>> \o xs
    ELSE <<xs[1]>> \o InsertDesc(x, Tail(xs))

\* sorted(xs, key=..., reverse=True): descending, equal keys in input order.
RECURSIVE SortedDesc(_)
SortedDesc(xs) ==
    IF xs = <<>> THEN <<>>
    ELSE InsertDesc(xs[Len(xs)], SortedDesc(SubSeq(xs, 1, Len(xs) - 1)))

\* Variant of SlicePrefix that stops one entry late: xs[:n + 1].
SlicePrefixOneLate(xs, n) ==
    LET m == n + 1
        stop == IF m >= 0 THEN (IF m < Len(xs) THEN m ELSE Len(xs))
                ELSE (IF Len(xs) + m > 0 THEN Len(xs) + m ELSE 0)
    IN  SubSeq(xs, 1, stop)

\* xs[:n]: the first n entries, and for a negative n all but the last -n.
SlicePrefix(xs, n) ==
    LET stop == IF n >= 0 THEN (IF n < Len(xs) THEN n ELSE Len(xs))
                ELSE (IF Len(xs) + n > 0 THEN Len(xs) + n ELSE 0)
    IN  SubSeq(xs, 1, stop)

\* Variant of generate_top_ranking that counts the ranks from 0.
generate_top_ranking_from_zero(stats, top_n) ==
    LET top == SlicePrefix(SortedDesc(stats), top_n)
    IN  [i \in 1 .. Len(top) |-> <<i - 1, top[i][1], top[i][2], top[i][3]>>]

\* Variant of generate_top_ranking that sorts ascending (no reverse=True).
generate_top_ranking_ascending(stats, top_n) ==
    LET asc == SortedDesc(stats)
        top == SlicePrefix([i \in 1 .. Len(asc) |-> asc[Len(asc) + 1 - i]], top_n)
    IN  [i \in 1 .. Len(top) |-> <<i, top[i][1], top[i][2], top[i][3]>>]

generate_top_ranking(stats, top_n) ==
    LET sorted_users == SortedDesc(stats)
        top == SlicePrefix(sorted_users, top_n)
    IN  [i \in 1 .. Len(top) |-> <<i, top[i][1], top[i][2], top[i][3]>>]

export_to_csv(rows) ==
    <<Header>> \o [i \in 1 .. Len(rows) |->
                     <<rows[i][1], rows[i][2], rows[i][3], rows[i][4],
                       <<"https://zenn.dev/", rows[i][2]>>>>]

\* print_top_ranking divides by and formats the counts, the summary sums them:
\* a None among them is a TypeError.
ReportRaises(stats) ==
    \E i \in 1 .. Len(stats) : ~IsInt(stats[i][2]) \/ ~IsInt(stats[i][3])

(***************************************************************************)
(* ZennRankingOrchestrator.execute_ranking_pipeline                        *)
(***************************************************************************)
\* Variant of AfterDiscovery without the early return.
AfterDiscoveryNoReturn(users) == "collect"

\* if not discovered_users: return
AfterDiscovery(users) == IF users = {} THEN "no_users" ELSE "collect"

\* if not user_stats: return
AfterCollection(stats) == IF stats = <<>> THEN "no_stats" ELSE "rank"

\* Step 1 has returned: the discovery's locals are gone, Step 2 starts.
CheckDiscovered ==
    /\ pc = "discovered"
    /\ pc' = AfterDiscovery(discovered_users)
    /\ pending' = IF AfterDiscovery(discovered_users) = "collect"
                  THEN discovered_users ELSE pending
    /\ page' = 0
    /\ requests' = 0
    /\ pages_users' = {}
    /\ clean_users' = {}
    /\ partial_users' = {}
    /\ UNCHANGED <<max_pages, top_ranking, discovered_users, user_stats,
                   failed, ranking, csv>>

\* The for loop of collect_all_user_stats is exhausted: Step 2 has returned.
CollectDone ==
    /\ pc = "collect"
    /\ pending = {}
    /\ pc' = AfterCollection(user_stats)
    /\ UNCHANGED <<max_pages, top_ranking, page, discovered_users, requests,
                   pages_users, clean_users, partial_users, pending,
                   user_stats, failed, ranking, csv>>

\* Step 3; a TypeError of sorted leaves the pipeline.
GenerateRanking ==
    /\ pc = "rank"
    /\ IF SortRaises(user_stats)
       THEN pc' = "crashed" /\ ranking' = ranking
       ELSE pc' = "export"
            /\ ranking' = generate_top_ranking(user_stats, top_ranking)
    /\ UNCHANGED <<max_pages, top_ranking, page, discovered_users, requests,
                   pages_users, clean_users, partial_users, pending,
                   user_stats, failed, csv>>

\* Steps 4 and 5: the file is written, then the ranking and the summary printed.
ExportAndReport ==
    /\ pc = "export"
    /\ csv' = export_to_csv(ranking)
    /\ pc' = IF ReportRaises(user_stats) THEN "crashed" ELSE "done"
    /\ UNCHANGED <<max_pages, top_ranking, page, discovered_users, requests,
                   pages_users, clean_users, partial_users, pending,
                   user_stats, failed, ranking>>

Next ==
    \/ Discover
    \/ CheckDiscovered
    \/ \E username \in pending, response \in Responses :
          CollectNext(username, response)
    \/ CollectDone
    \/ GenerateRanking
    \/ ExportAndReport

Spec == Init /\ [][Next]_vars

(***************************************************************************)
(* generate_top_ranking and export_to_csv on any list of UserStat.         *)
(***************************************************************************)
RankUsers == {"x", "y", "z"}
RankKeys == {<<0, 0>>, <<50, 5>>, <<50, 10>>, <<100, 1>>}
UserStats == {<<u, PyInt(k[1]), PyInt(k[2])>> : u \in RankUsers, k \in RankKeys}

InitRank ==
    /\ pc = "rank"
    /\ max_pages = 0
    /\ top_ranking \in (0 - MaxStats - 1) .. (MaxStats + 1)
    /\ page = 0
    /\ discovered_users = {}
    /\ requests = 0
    /\ pages_users = {}
    /\ clean_users = {}
    /\ partial_users = {}
    /\ pending = {}
    /\ user_stats \in SeqsUpTo(UserStats, MaxStats)
    /\ failed = {}
    /\ ranking = <<>>
    /\ csv = NoFile

NextRank ==
    \/ GenerateRanking
    \/ ExportAndReport

RankSpec == InitRank /\ [][NextRank]_vars

(***************************************************************************)
(* Properties of discovery.                                                *)
(***************************************************************************)
InDiscovery == pc \in {"discover", "discovered"}

\* C1: discover_users_from_popular_articles issues at most max_pages page
\* requests, whatever next_page values the server sends.
C1_AtMostMaxPagesRequests == requests <= max_pages

\* C9: discover_users_from_popular_articles eventually returns, for every
\* max_pages and every behaviour of the server.
C9_DiscoveryTerminates == <>(pc = "discovered")

\* C6 as stated: the discovered set is exactly the union of the usernames of the
\* pages fetched successfully, whether a page whose processing raised counts
\* as fetched (pages_users) or not (clean_users).
C6_DiscoveredIsUnionOfPages ==
    InDiscovery =>
        \/ discovered_users = pages_users
        \/ discovered_users = clean_users

\* C6 amended: the discovered set is exactly the usernames of the pages
\* processed to their end together with the usernames that precede the
\* malformed article on the page whose processing raised; it holds no empty
\* username.
C6_DiscoveredIsUsersProcessed ==
    InDiscovery =>
        /\ discovered_users = clean_users \cup partial_users
        /\ discovered_users \subseteq Usernames

\* Users of two overlapping pages are kept when a later page raises mid-way.
C6_Witness ==
    /\ pc = "discovered"
    /\ discovered_users = {"a", "b", "c"}
    /\ clean_users = {"a", "b"}
    /\ partial_users = {"b", "c"}
    /\ pages_users = {"a", "b", "c"}

(***************************************************************************)
(* Properties of the pipeline and of collection.                           *)
(***************************************************************************)
\* C5 as stated: a run whose discovery found nobody ends with a CSV file that
\* holds the header row only.
C5_EmptyDiscoveryWritesHeaderOnly ==
    (pc \in {"no_users", "no_stats", "done", "crashed"} /\ discovered_users = {})
        => csv = <<Header>>

\* C5 amended: when discovery returns the empty set the pipeline returns at
\* once: no lookup is made, no ranking generated and no file written.
C5_EmptyDiscoveryReturnsEarly ==
    (pc # "discover" /\ discovered_users = {}) =>
        /\ pc \in {"discovered", "no_users"}
        /\ user_stats = <<>>
        /\ ranking = <<>>
        /\ csv = NoFile

C5_Witness ==
    /\ pc = "no_users"
    /\ discovered_users = {}
    /\ csv = NoFile

StatNames == {user_stats[i][1] : i \in 1 .. Len(user_stats)}

C3_OneStatPerUsername ==
    pc \in {"collect", "rank", "export", "done", "crashed"} =>
        /\ StatNames \cup pending = discovered_users
        /\ Len(user_stats) + Cardinality(pending) = Cardinality(discovered_users)
        /\ failed \subseteq StatNames
        /\ \A i \in 1 .. Len(user_stats) :
              user_stats[i][1] \in failed =>
                  user_stats[i] = <<user_stats[i][1], PyInt(0), PyInt(0)>>

C3_FailureOnlyAppends ==
    (pc = "collect" /\ failed' # failed) =>
        /\ pc' = "collect"
        /\ Len(user_stats') = Len(user_stats) + 1
        /\ SubSeq(user_stats', 1, Len(user_stats)) = user_stats
        /\ pending' \subseteq pending

\* C3: a failed lookup yields (username, 0, 0); the list holds exactly one stat
\* per input username; a failure only appends its own stat, leaves the stats
\* already collected as they are, and the loop goes on.
C3_FailedLookupIsIsolated ==
    [] C3_OneStatPerUsername /\ [][C3_FailureOnlyAppends]_vars

\* A lookup failed in the middle and the collection completed for everybody.
C3_Witness ==
    /\ pc = "rank"
    /\ Len(user_stats) = 3
    /\ user_stats[2][1] \in failed
    /\ user_stats[1][1] \notin failed
    /\ user_stats[3][1] \notin failed
    /\ user_stats[1][2] = PyInt(50)
    /\ user_stats[3][3] = PyInt(50)

\* C8: every stat collect_user_stats returns carries the input username and
\* two non-negative integer counts.
C8_CountsAreNonNegativeInts ==
    \A i \in 1 .. Len(user_stats) :
        /\ user_stats[i][1] \in discovered_users
        /\ IsInt(user_stats[i][2]) /\ user_stats[i][2].v >= 0
        /\ IsInt(user_stats[i][3]) /\ user_stats[i][3].v >= 0

(***************************************************************************)
(* Properties of generate_top_ranking.                                     *)
(***************************************************************************)
Ranked == pc \in {"export", "done"}
Smaller(a, b) == IF a < b THEN a ELSE b

\* C2 as stated: the ranking's length is min(top_n, len(stats)).
C2_LengthIsMin ==
    Ranked => Len(ranking) = Smaller(top_ranking, Len(user_stats))

\* C2 amended: the ranking's length is min(top_n, len(stats)) for top_n >= 0,
\* and max(len(stats) + top_n, 0) for a negative top_n.
C2_LengthOfSlice ==
    Ranked =>
        Len(ranking) =
            IF top_ranking >= 0 THEN Smaller(top_ranking, Len(user_stats))
            ELSE IF Len(user_stats) + top_ranking > 0
                 THEN Len(user_stats) + top_ranking
                 ELSE 0

C2_Witness ==
    /\ Ranked
    /\ top_ranking = 2
    /\ Len(user_stats) = 3
    /\ Len(ranking) = 2

\* C4: consecutive entries of the ranking descend in (total_liked_count,
\* article_count), and the stated example ranks z, then y.
C4_SortedDescending ==
    Ranked =>
        /\ \A i \in 1 .. Len(ranking) - 1 :
              \/ ranking[i][3].v > ranking[i + 1][3].v
              \/ /\ ranking[i][3].v = ranking[i + 1][3].v
                 /\ ranking[i][4].v >= ranking[i + 1][4].v
        /\ (/\ user_stats = << <<"x", PyInt(50), PyInt(5)>>,
                              <<"y", PyInt(50), PyInt(10)>>,
                              <<"z", PyInt(100), PyInt(1)>> >>
            /\ top_ranking = 2)
           => ranking = << <<1, "z", PyInt(100), PyInt(1)>>,
                           <<2, "y", PyInt(50), PyInt(10)>> >>

C4_Witness ==
    /\ Ranked
    /\ top_ranking = 2
    /\ user_stats = << <<"x", PyInt(50), PyInt(5)>>,
                       <<"y", PyInt(50), PyInt(10)>>,
                       <<"z", PyInt(100), PyInt(1)>> >>
    /\ ranking = << <<1, "z", PyInt(100), PyInt(1)>>,
                    <<2, "y", PyInt(50), PyInt(10)>> >>

\* C7: the ranks are 1..len(ranking) in list order.
C7_RanksAreOneToLen ==
    Ranked => \A i \in 1 .. Len(ranking) : ranking[i][1] = i

C7_Witness ==
    /\ Ranked
    /\ Len(ranking) = 3
    /\ ranking[3][1] = 3

\* How often the stat t occurs in a list of stats, and in the ranking.
CountIn(t, xs) == Cardinality({i \in 1 .. Len(xs) : xs[i] = t})
CountRanked(t) ==
    Cardinality({i \in 1 .. Len(ranking) :
                    <<ranking[i][2], ranking[i][3], ranking[i][4]>> = t})
KeyAtMost(t, r) ==
    \/ t[2].v < r[3].v
    \/ t[2].v = r[3].v /\ t[3].v <= r[4].v

C10_TopSelection ==
    Ranked =>
        /\ \A i \in 1 .. Len(ranking) :
              LET t == <<ranking[i][2], ranking[i][3], ranking[i][4]>>
              IN  CountRanked(t) <= CountIn(t, user_stats)
        /\ \A j \in 1 .. Len(user_stats) :
              CountRanked(user_stats[j]) < CountIn(user_stats[j], user_stats)
                  => \A i \in 1 .. Len(ranking) :
                        KeyAtMost(user_stats[j], ranking[i])

\* C10: the ranking is a sub-multiset of stats, every stat left out has a key
\* at most that of every ranked entry, and stats itself is never changed.
C10_SelectsTheTopAndKeepsInput ==
    [] C10_TopSelection /\ [][user_stats' = user_stats]_vars

\* A proper, non-empty selection from a list that holds a stat twice.
C10_Witness ==
    /\ Ranked
    /\ Len(user_stats) = 3
    /\ Len(ranking) = 2
    /\ user_stats[1] = user_stats[3]
    /\ user_stats[1] # user_stats[2]

=============================================================================
